---------------------------- MODULE Spec2Model ----------------------------
(***************************************************************************)
(* Model of src/src/lib.rs: the iterator `Partitions` over the integer     *)
(* partitions of n (Kelleher's accelerated ascending compositions).        *)
(*                                                                         *)
(* The struct's fields a, k, y, next are the variables of the same name.   *)
(* A Rust Vec<usize> is a TLA+ sequence: Rust index i is TLA+ index i + 1. *)
(* The enum State is the record [tag, x, l]; the variant A carries no      *)
(* data, its x and l fields are 0 and are never read.                      *)
(* A failed bounds check ends the call with the result "Panic", leaving    *)
(* the writes made before it in place.  An unsigned subtraction below zero *)
(* panics in a build with overflow checks ("debug") and wraps modulo 2^64  *)
(* in a build without them ("release"); every call is taken under either   *)
(* build.  A usize above 2^63 is written as its value minus 2^64 (-1 is    *)
(* 2^64 - 1), so that + and - are the wrapping ones; comparisons of usize  *)
(* values go through ULe.  The capacity of the vector (reserve) is not     *)
(* observable through the API and is left out.                             *)
(***************************************************************************)
EXTENDS Integers, Sequences, FiniteSets

\* ------------------------------------------------------------------ bounds

\* largest n a generator is constructed for
MaxN == 9
\* how many times next() is called again after it has returned None
MaxNone == 2
\* arbitrary caller vectors handed to recycle: length and entries up to this
MaxVec == 1

\* ------------------------------------------------------------- Vec<usize>

RECURSIVE SeqSum(_)
SeqSum(s) == IF s = <<>> THEN 0 ELSE Head(s) + SeqSum(Tail(s))

\* a[i]
At(v, i) == v[i + 1]
\* a[i] = x
Set(v, i, x) == [v EXCEPT ![i + 1] = x]
\* &a[..m]
Slice(v, m) == SubSeq(v, 1, m)
\* i is a valid index of v
InBounds(v, i) == i >= 0 /\ i < Len(v)

\* variant of Clear: the old contents are kept
Clear_Keep(v) == v

\* vec.clear()
Clear(v) == << >>

\* for _ in 0..cnt { vec.push(0) }
RECURSIVE PushZeros(_, _)
PushZeros(v, cnt) == IF cnt = 0 THEN v ELSE PushZeros(Append(v, 0), cnt - 1)

\* vec![0; m]
Zeros(m) == [i \in 1..m |-> 0]

\* ------------------------------------------------------------------ State

StateA == [tag |-> "A", x |-> 0, l |-> 0]

\* variant of StateB: the two fields are exchanged
StateB_Swapped(x, l) == [tag |-> "B", x |-> l, l |-> x]

StateB(x, l) == [tag |-> "B", x |-> x, l |-> l]

\* ------------------------------------------------------------ usize

\* the builds of the crate: with and without overflow checks
Builds == {"debug", "release"}

\* v stands for the usize 2^64 + v
Huge(v) == v < 0

\* u <= v as usize values
ULe(u, v) == IF Huge(u) = Huge(v) THEN u <= v ELSE Huge(v)

\* the usize subtraction u - v goes below zero
SubFails(u, v) == ~ULe(v, u)

\* the usize addition u + v goes above 2^64 - 1
AddFails(u, v) ==
    IF Huge(u) /\ Huge(v) THEN TRUE
    ELSE IF Huge(u) \/ Huge(v) THEN u + v >= 0
    ELSE FALSE

\* an arithmetic operation that leaves the usize range panics
Checked(build) == build = "debug"

\* ------------------------------------------------------------ constructors

\* variant of InitK: k starts at 0 for every n
InitK_Zero(m) == 0

\* variant of InitK: n == 0 is not told apart
InitK_One(m) == 1

\* k: if n == 0 { 0 } else { 1 }
InitK(m) == IF m = 0 THEN 0 ELSE 1
\* variant of InitY: y starts at n
InitY_N(m) == m

\* y: if n == 0 { 0 } else { n - 1 }
InitY(m) == IF m = 0 THEN 0 ELSE m - 1

\* a constructor or a step of it that returned v
Ok(v) == [tag |-> "Ok", val |-> v]

\* a constructor or a step of it that panicked: nothing is returned
NoValue == [tag |-> "Panic", val |-> << >>]

\* a vector of cnt usize entries (8 bytes each) is more than isize::MAX =
\* 2^63 - 1 bytes, that is cnt >= 2^60 = 2^30 * 2^30: the allocation panics
\* with a capacity overflow in every build
CapacityFails(cnt) ==
    Huge(cnt) \/ (cnt \div 1073741824) >= 1073741824

\* Partitions::new(n), in the given build.  n + 1 with n = usize::MAX
\* panics under overflow checks and wraps to 0 without them.
Partitions_new(m, build) ==
    IF AddFails(m, 1) /\ Checked(build) THEN NoValue
    ELSE IF CapacityFails(m + 1) THEN NoValue
    ELSE Ok([a |-> Zeros(m + 1), k |-> InitK(m), y |-> InitY(m),
             next |-> StateA])

\* the vector after clear, reserve and the push loop of recycle, in the
\* given build.  n + 1 (lines 43 and 44) is as in Partitions::new.
RecycleVec(m, vec, build) ==
    LET v0 == Clear(vec)
    IN  IF AddFails(m, 1) /\ Checked(build) THEN NoValue
        ELSE IF CapacityFails(m + 1) THEN NoValue
        ELSE Ok(PushZeros(v0, m + 1))

\* Partitions::recycle(n, vec), in the given build
Partitions_recycle(m, vec, build) ==
    LET r == RecycleVec(m, vec, build)
    IN  IF r.tag = "Panic" THEN NoValue
        ELSE Ok([a |-> r.val, k |-> InitK(m), y |-> InitY(m),
                 next |-> StateA])

\* Partitions::end(self)
Partitions_end(self) == self.a

\* ------------------------------------------------------------ return values

Some(v) == [tag |-> "Some", val |-> v]
None == [tag |-> "None", val |-> << >>]
Panic == [tag |-> "Panic", val |-> << >>]

Ret(self, r) == [self |-> self, ret |-> r]

\* ------------------------------------------------------------------- next

\* self.a.pop()
Pop(v) == SubSeq(v, 1, Len(v) - 1)

\* variant of LoopCond: strict comparison
LoopCond_Strict(x, yy) == 2 * x < yy

\* while 2 * x <= self.y
LoopCond(x, yy) == ULe(2 * x, yy)

\* variant of SplitCond: strict comparison
SplitCond_Strict(x, yy) == x < yy

\* variant of SplitCond: off by one
SplitCond_OffByOne(x, yy) == x <= yy + 1

\* if x <= self.y
SplitCond(x, yy) == ULe(x, yy)

\* variant of WhileLoop: y -= x is left out
RECURSIVE WhileLoop_NoSub(_, _, _)
WhileLoop_NoSub(self, x, build) ==
    IF LoopCond(x, self.y)
    THEN IF ~InBounds(self.a, self.k)
         THEN [self |-> self, ok |-> FALSE]
         ELSE WhileLoop_NoSub([self EXCEPT !.a = Set(self.a, self.k, x),
                                           !.k = self.k + 1], x, build)
    ELSE [self |-> self, ok |-> TRUE]

\* the loop of lines 86-90: a[k] = x; y -= x; k += 1 while 2 * x <= y.
\* The result is the generator after the loop, or, with ok = FALSE, the
\* generator at a failed bounds check of a[k] or at a checked y -= x below
\* zero (a[k] is written by then), or at a checked 2 * x above the range.
RECURSIVE WhileLoop(_, _, _)
WhileLoop(self, x, build) ==
    IF AddFails(x, x) /\ Checked(build)
    THEN [self |-> self, ok |-> FALSE]
    ELSE IF LoopCond(x, self.y)
    THEN IF ~InBounds(self.a, self.k)
         THEN [self |-> self, ok |-> FALSE]
         ELSE LET s1 == [self EXCEPT !.a = Set(self.a, self.k, x)]
              IN  IF SubFails(self.y, x) /\ Checked(build)
                  THEN [self |-> s1, ok |-> FALSE]
                  ELSE WhileLoop([s1 EXCEPT !.y = self.y - x,
                                            !.k = self.k + 1], x, build)
    ELSE [self |-> self, ok |-> TRUE]

\* variant of Split: a[l] is not written
Split_NoTail(self, x, l) ==
    IF ~InBounds(self.a, self.k) THEN Ret(self, Panic)
    ELSE LET s1 == [self EXCEPT !.a = Set(self.a, self.k, x)]
         IN  IF ~InBounds(s1.a, l) THEN Ret(s1, Panic)
             ELSE LET s2 == [s1 EXCEPT !.next = StateB(x, l)]
                  IN  IF self.k + 2 > Len(s2.a) THEN Ret(s2, Panic)
                      ELSE Ret(s2, Some(Slice(s2.a, self.k + 2)))

\* lines 95-98: a[k] = x; a[l] = y; next = B { x, l }; result = a[..k + 2].
\* Each statement has its own bounds check, after the writes before it.
Split(self, x, l) ==
    IF ~InBounds(self.a, self.k) THEN Ret(self, Panic)
    ELSE LET s1 == [self EXCEPT !.a = Set(self.a, self.k, x)]
         IN  IF ~InBounds(s1.a, l) THEN Ret(s1, Panic)
             ELSE LET s2 == [s1 EXCEPT !.a = Set(s1.a, l, self.y),
                                       !.next = StateB(x, l)]
                  IN  IF self.k + 2 > Len(s2.a) THEN Ret(s2, Panic)
                      ELSE Ret(s2, Some(Slice(s2.a, self.k + 2)))

\* variant of MergeA: the result is a[..k + 2], as in the other branch
MergeA_WideSlice(self, x, build) ==
    IF ~InBounds(self.a, self.k) THEN Ret(self, Panic)
    ELSE LET s1 == [self EXCEPT !.a = Set(self.a, self.k, x + self.y)]
         IN  IF SubFails(x + self.y, 1) /\ Checked(build) THEN Ret(s1, Panic)
             ELSE LET s2 == [s1 EXCEPT !.y = x + self.y - 1]
                  IN  IF self.k + 2 > Len(s2.a) THEN Ret(s2, Panic)
                      ELSE Ret(s2, Some(Slice(s2.a, self.k + 2)))

\* variant of MergeA: a[k] is not written
MergeA_NoWrite(self, x, build) ==
    IF ~InBounds(self.a, self.k) THEN Ret(self, Panic)
    ELSE IF SubFails(x + self.y, 1) /\ Checked(build) THEN Ret(self, Panic)
    ELSE LET s2 == [self EXCEPT !.y = x + self.y - 1]
         IN  Ret(s2, Some(Slice(s2.a, self.k + 1)))

\* variant of MergeA: y = x + y, without the - 1
MergeA_KeepY(self, x, build) ==
    IF ~InBounds(self.a, self.k) THEN Ret(self, Panic)
    ELSE LET s2 == [self EXCEPT !.a = Set(self.a, self.k, x + self.y),
                                !.y = x + self.y]
         IN  Ret(s2, Some(Slice(s2.a, self.k + 1)))

\* lines 100-102: a[k] = x + y; y = x + y - 1; result = a[..k + 1].
\* x + y - 1 is below zero when x + y is 0, after a[k] is written.
MergeA(self, x, build) ==
    IF AddFails(x, self.y) /\ Checked(build) THEN Ret(self, Panic)
    ELSE IF ~InBounds(self.a, self.k) THEN Ret(self, Panic)
    ELSE LET s1 == [self EXCEPT !.a = Set(self.a, self.k, x + self.y)]
         IN  IF SubFails(x + self.y, 1) /\ Checked(build) THEN Ret(s1, Panic)
             ELSE LET s2 == [s1 EXCEPT !.y = x + self.y - 1]
                  IN  Ret(s2, Some(Slice(s2.a, self.k + 1)))

\* variant of MergeB: y is updated before a[k] is written
MergeB_YFirst(self, x, build) ==
    IF ~InBounds(self.a, self.k) THEN Ret(self, Panic)
    ELSE IF SubFails(x + self.y, 1) /\ Checked(build) THEN Ret(self, Panic)
    ELSE LET s2 == [self EXCEPT !.a = Set(self.a, self.k, x + self.y - 1),
                                !.y = x + self.y - 1,
                                !.next = StateA]
         IN  Ret(s2, Some(Slice(s2.a, self.k + 1)))

\* variant of MergeB: next is left as it was
MergeB_StayB(self, x, build) ==
    IF ~InBounds(self.a, self.k) THEN Ret(self, Panic)
    ELSE LET s1 == [self EXCEPT !.a = Set(self.a, self.k, x + self.y)]
         IN  IF SubFails(x + self.y, 1) /\ Checked(build) THEN Ret(s1, Panic)
             ELSE LET s2 == [s1 EXCEPT !.y = x + self.y - 1]
                  IN  Ret(s2, Some(Slice(s2.a, self.k + 1)))

\* variant of MergeB: y = x + y, without the - 1
MergeB_KeepY(self, x, build) ==
    IF ~InBounds(self.a, self.k) THEN Ret(self, Panic)
    ELSE LET s2 == [self EXCEPT !.a = Set(self.a, self.k, x + self.y),
                                !.y = x + self.y,
                                !.next = StateA]
         IN  Ret(s2, Some(Slice(s2.a, self.k + 1)))

\* lines 116-119: as lines 100-102, and next = A
MergeB(self, x, build) ==
    IF AddFails(x, self.y) /\ Checked(build) THEN Ret(self, Panic)
    ELSE IF ~InBounds(self.a, self.k) THEN Ret(self, Panic)
    ELSE LET s1 == [self EXCEPT !.a = Set(self.a, self.k, x + self.y)]
         IN  IF SubFails(x + self.y, 1) /\ Checked(build) THEN Ret(s1, Panic)
             ELSE LET s2 == [s1 EXCEPT !.y = x + self.y - 1, !.next = StateA]
                  IN  Ret(s2, Some(Slice(s2.a, self.k + 1)))

\* lines 83-103: State::A with k > 0
NextA(self, build) ==
    LET s0 == [self EXCEPT !.k = self.k - 1]
    IN  IF ~InBounds(s0.a, s0.k) THEN Ret(s0, Panic)
        ELSE IF AddFails(At(s0.a, s0.k), 1) /\ Checked(build)
        THEN Ret(s0, Panic)
        ELSE LET x  == At(s0.a, s0.k) + 1
                 w  == WhileLoop(s0, x, build)
                 s1 == w.self
                 l  == s1.k + 1
             IN  IF ~w.ok THEN Ret(s1, Panic)
                 ELSE IF SplitCond(x, s1.y) THEN Split(s1, x, l)
                 ELSE MergeA(s1, x, build)

\* variant of NextB: x is not incremented
NextB_NoIncr(self, build) ==
    LET x  == self.next.x
        l  == self.next.l
    IN  IF SubFails(self.y, 1) /\ Checked(build) THEN Ret(self, Panic)
        ELSE LET s0 == [self EXCEPT !.y = self.y - 1]
             IN  IF SplitCond(x, s0.y) THEN Split(s0, x, l)
                 ELSE MergeB(s0, x, build)

\* lines 106-121: State::B { x, l }.  y -= 1 with y = 0 panics under
\* overflow checks and wraps to 2^64 - 1 without them.
NextB(self, build) ==
    LET x  == self.next.x + 1
        l  == self.next.l
    IN  IF AddFails(self.next.x, 1) /\ Checked(build) THEN Ret(self, Panic)
        ELSE IF SubFails(self.y, 1) /\ Checked(build) THEN Ret(self, Panic)
        ELSE LET s0 == [self EXCEPT !.y = self.y - 1]
             IN  IF SplitCond(x, s0.y) THEN Split(s0, x, l)
                 ELSE MergeB(s0, x, build)

\* variant of NextK0: the pop is done before the length is tested
NextK0_PopFirst(self) ==
    IF Len(self.a) = 1
    THEN Ret([self EXCEPT !.a = Pop(self.a)], Some(<< >>))
    ELSE Ret([self EXCEPT !.a = Pop(self.a)], None)

\* lines 75-81: State::A with k == 0
NextK0(self) ==
    IF Len(self.a) = 1
    THEN Ret([self EXCEPT !.a = Pop(self.a)], Some(<< >>))
    ELSE Ret(self, None)

\* Iterator::next(&mut self), in the given build
Partitions_next(self, build) ==
    IF self.next.tag = "A"
    THEN IF self.k = 0 THEN NextK0(self) ELSE NextA(self, build)
    ELSE NextB(self, build)

\* ------------------------------------------------------------------ state

VARIABLES
    n,      \* the argument the current generator was constructed with
    a,      \* Partitions.a
    k,      \* Partitions.k
    y,      \* Partitions.y
    next,   \* Partitions.next
    pc,     \* "live": a generator exists; "ended": end() consumed it;
            \* "panicked": a call panicked
    hist,   \* the results of the next() calls on the current generator
    vec,    \* the vector end() returned, while pc = "ended"
    src     \* how the current generator was made: [by, vec]

vars == <<n, a, k, y, next, pc, hist, vec, src>>

Gen == [a |-> a, k |-> k, y |-> y, next |-> next]

\* vectors a caller may hand to recycle besides one it got from end()
CallerVecs == UNION {[1..len -> 0..MaxVec] : len \in 0..MaxVec}

NoneCount == Cardinality({i \in 1..Len(hist) : hist[i].tag = "None"})

Install(g) ==
    /\ a' = g.a
    /\ k' = g.k
    /\ y' = g.y
    /\ next' = g.next

\* the state after a call of a constructor: its generator, or none if it
\* panicked
Construct(r) ==
    IF r.tag = "Panic"
    THEN pc' = "panicked" /\ UNCHANGED <<a, k, y, next>>
    ELSE pc' = "live" /\ Install(r.val)

\* a generator that Partitions::new(n) returned
Init ==
    /\ n \in 0..MaxN
    /\ \E r \in {Partitions_new(n, build) : build \in Builds} :
              /\ r.tag = "Ok"
              /\ a = r.val.a
              /\ k = r.val.k
              /\ y = r.val.y
              /\ next = r.val.next
    /\ pc = "live"
    /\ hist = << >>
    /\ vec = << >>
    /\ src = [by |-> "new", vec |-> << >>]

\* one call of next() on the current generator
CallNext ==
    /\ pc = "live"
    /\ NoneCount < MaxNone
    /\ \E r \in {Partitions_next(Gen, build) : build \in Builds} :
          /\ Install(r.self)
          /\ hist' = Append(hist, r.ret)
          /\ pc' = IF r.ret.tag = "Panic" THEN "panicked" ELSE "live"
    /\ UNCHANGED <<n, vec, src>>

\* end(): the generator is consumed, the caller holds its vector
End ==
    /\ pc = "live"
    /\ vec' = Partitions_end(Gen)
    /\ pc' = "ended"
    /\ UNCHANGED <<n, a, k, y, next, hist, src>>

\* Partitions::new(m), the held vector is dropped
New ==
    /\ pc = "ended"
    /\ \E m \in 0..MaxN :
          \E r \in {Partitions_new(m, build) : build \in Builds} :
             /\ n' = m
             /\ Construct(r)
    /\ hist' = << >>
    /\ vec' = << >>
    /\ src' = [by |-> "new", vec |-> << >>]

\* Partitions::recycle(m, v) with the vector from end() or any other vector
Recycle ==
    /\ pc = "ended"
    /\ \E m \in 0..MaxN, v \in {vec} \cup CallerVecs :
          \E r \in {Partitions_recycle(m, v, build) : build \in Builds} :
             /\ n' = m
             /\ Construct(r)
             /\ src' = [by |-> "recycle", vec |-> v]
    /\ hist' = << >>
    /\ vec' = << >>

Next == CallNext \/ End \/ New \/ Recycle

Spec == Init /\ [][Next]_vars

\* ---------------------------------------------------------- reference data

\* the array `tests` of the test oeis: the first entries of A000041
tests ==
    << 1, 1, 2, 3, 5, 7, 11, 15, 22, 30, 42, 56, 77, 101, 135, 176, 231, 297,
       385, 490, 627, 792, 1002, 1255, 1575, 1958, 2436, 3010, 3718, 4565,
       5604, 6842, 8349, 10143, 12310, 14883, 17977, 21637, 26015, 31185,
       37338, 44583, 53174, 63261, 75175, 89134, 105558, 124754, 147273,
       173525 >>

\* the non-decreasing sequences of integers >= lo that sum to m
RECURSIVE PartsFrom(_, _)
PartsFrom(m, lo) ==
    IF m = 0 THEN {<< >>}
    ELSE UNION {{<<p>> \o s : s \in PartsFrom(m - p, p)} : p \in lo..m}

\* the integer partitions of each m, as non-decreasing sequences
PartitionsOf == [m \in 0..MaxN |-> PartsFrom(m, 1)]

\* ------------------------------------------------------- observed behaviour

IsNone(i) == hist[i].tag = "None"
IsSome(i) == hist[i].tag = "Some"

\* some call has returned None
Exhausted == \E i \in 1..Len(hist) : IsNone(i)

\* the calls before the first None
BeforeNone == {i \in 1..Len(hist) : \A j \in 1..i : ~IsNone(j)}

NonDecreasing(s) == \A i \in 1..(Len(s) - 1) : s[i] <= s[i + 1]

\* ------------------------------------------------------------------ claims

\* C1: every partition returned by next() has parts that sum to n.
SumIsN ==
    \A i \in 1..Len(hist) : IsSome(i) => SeqSum(hist[i].val) = n

\* C1 witness: a complete enumeration for some n >= 5 that returned a
\* partition of three parts
SumIsN_Witness ==
    /\ n >= 5
    /\ Exhausted
    /\ \E i \in 1..Len(hist) : IsSome(i) /\ Len(hist[i].val) = 3

\* C2: the number of Some results before the first None is p(n), the number
\* of integer partitions of n, as counted directly and as listed in A000041.
CountIsPn ==
    Exhausted =>
        /\ Cardinality(BeforeNone) = Cardinality(PartitionsOf[n])
        /\ Cardinality(BeforeNone) = tests[n + 1]
        /\ \A i \in BeforeNone : IsSome(i)

\* C2 witness: an exhausted enumeration of p(6) = 11 partitions
CountIsPn_Witness ==
    /\ n = 6
    /\ Exhausted
    /\ Cardinality(BeforeNone) = 11

\* C3: once next() has returned None, every non-decreasing sequence of
\* positive integers that sums to n has been returned before that None.
Complete ==
    Exhausted =>
        \A p \in PartitionsOf[n] : \E i \in BeforeNone : hist[i] = Some(p)

\* C3 witness: an exhausted enumeration that returned <<2, 2, 3>>
Complete_Witness ==
    /\ n = 7
    /\ Exhausted
    /\ \E i \in BeforeNone : hist[i] = Some(<<2, 2, 3>>)

\* C4: no two next() calls on the same generator return the same sequence
\* of parts.
Unique ==
    \A i, j \in 1..Len(hist) :
        (IsSome(i) /\ IsSome(j) /\ i # j) => hist[i].val # hist[j].val

\* C4 witness: all p(7) = 15 partitions of 7 have been returned
Unique_Witness ==
    /\ n = 7
    /\ Exhausted
    /\ Cardinality({i \in 1..Len(hist) : IsSome(i)}) = 15

\* the order the specification states for n = 4
StatedOrder4 == << <<1, 1, 1, 1>>, <<1, 1, 2>>, <<2, 2>>, <<1, 3>>, <<4>> >>

\* the order of the amended claim for n = 4
AscendingOrder4 == << <<1, 1, 1, 1>>, <<1, 1, 2>>, <<1, 3>>, <<2, 2>>, <<4>> >>

\* the calls made so far returned the partitions of `order`, in that order,
\* and None after them
ReturnsInOrder(order) ==
    \A i \in 1..Len(hist) :
        hist[i] = IF i <= Len(order) THEN Some(order[i]) ELSE None

\* C5 as stated: for n = 4 the calls return [1,1,1,1], [1,1,2], [2,2], [1,3],
\* [4] in this order, and then None.
Order4_AsStated == (n = 4) => ReturnsInOrder(StatedOrder4)

\* C5 amended: for n = 4 the calls return [1,1,1,1], [1,1,2], [1,3], [2,2],
\* [4] in this order, and then None.
Order4 == (n = 4) => ReturnsInOrder(AscendingOrder4)

\* C5 witness: the sixth call on a generator for 4 has returned
Order4_Witness ==
    /\ n = 4
    /\ Len(hist) = 6
    /\ IsNone(6)

\* C6: once next() has returned None, every later call returns None and
\* leaves a, k, y and next unchanged.
ExhaustionIdempotent ==
    [][ (Exhausted /\ pc = "live" /\ hist' = Append(hist, hist'[Len(hist')]))
            => /\ hist'[Len(hist')] = None
               /\ a' = a
               /\ k' = k
               /\ y' = y
               /\ next' = next ]_vars

\* C6 witness: two calls in a row returned None on a generator for n >= 2
ExhaustionIdempotent_Witness ==
    /\ n >= 2
    /\ Len(hist) >= 2
    /\ IsNone(Len(hist) - 1)
    /\ IsNone(Len(hist))

\* the results of the first `calls` calls of next() on the generator g
RECURSIVE RunOf(_, _, _)
RunOf(g, calls, build) ==
    IF calls = 0 THEN << >>
    ELSE LET r == Partitions_next(g, build)
         IN  <<r.ret>> \o RunOf(r.self, calls - 1, build)

\* the values of n at which n + 1 leaves the usize range or the capacity
\* of a vector: usize::MAX - 1 and usize::MAX
WrapN == {-2, -1}

\* C7: a generator made by recycle(n, vec) starts with a buffer of exactly
\* n + 1 zeros and returns the same results, call by call, as new(n); where
\* n + 1 wraps or the allocation panics, recycle ends as new does.
RecycleFidelity ==
    (src.by = "recycle") =>
        /\ (hist = << >>) => (Len(a) = n + 1 /\ \A i \in 1..Len(a) : a[i] = 0)
        /\ \A build \in Builds :
              /\ Partitions_new(n, build).tag = "Ok"
              /\ Partitions_recycle(n, src.vec, build) = Partitions_new(n, build)
              /\ hist = RunOf(Partitions_new(n, build).val, Len(hist), build)
        /\ \A m \in WrapN, build \in Builds :
              Partitions_recycle(m, src.vec, build) = Partitions_new(m, build)

\* C7 witness: a complete enumeration by a generator recycled from a longer
\* vector with stale entries, as end() returns it
RecycleFidelity_Witness ==
    /\ src.by = "recycle"
    /\ n >= 3
    /\ Len(src.vec) > n + 1
    /\ \E i \in 1..Len(src.vec) : src.vec[i] > 1
    /\ Exhausted
    /\ pc = "live"

\* C8: for n = 0 the first call returns Some of the empty sequence and every
\* later call returns None.
ZeroOnce == (n = 0) => ReturnsInOrder(<< << >> >>)

\* C8 witness: three calls on a generator for 0
ZeroOnce_Witness ==
    /\ n = 0
    /\ Len(hist) = 3

\* C9: the parts of every returned partition are in non-decreasing order.
Ascending ==
    \A i \in 1..Len(hist) : IsSome(i) => NonDecreasing(hist[i].val)

\* C9 witness: a partition with three different parts has been returned
Ascending_Witness ==
    \E i \in 1..Len(hist) : hist[i] = Some(<<1, 2, 4>>)

\* C10: every part of every returned partition is >= 1, and the only
\* returned sequence without parts is the first result for n = 0.
PositiveParts ==
    \A i \in 1..Len(hist) :
        IsSome(i) =>
            /\ \A j \in 1..Len(hist[i].val) : hist[i].val[j] >= 1
            /\ (hist[i].val = << >>) => (n = 0 /\ i = 1)

\* C10 witness: the last result is a prefix of the buffer, and the buffer
\* entry right after it is a stale non-zero value
PositiveParts_Witness ==
    /\ hist # << >>
    /\ IsSome(Len(hist))
    /\ Len(hist[Len(hist)].val) >= 1
    /\ Len(hist[Len(hist)].val) < Len(a)
    /\ a[Len(hist[Len(hist)].val) + 1] > 0

\* C11: no next() call fails: no bounds check and no unsigned subtraction
\* panics, the buffer of a generator for n > 0 keeps its n + 1 entries, and
\* between calls the indices the next call uses (k - 1 in State::A, k and l
\* and the slice bound k + 2 in State::B) are below n + 1, with y >= 1 in
\* State::B so that y -= 1 stays non-negative.
NoFailure ==
    /\ pc # "panicked"
    /\ \A i \in 1..Len(hist) : hist[i].tag # "Panic"
    /\ (n > 0) => Len(a) = n + 1
    /\ k >= 0 /\ y >= 0
    /\ (n > 0 /\ next.tag = "A") => k - 1 < n + 1
    /\ (next.tag = "B") =>
          /\ k < n + 1
          /\ next.l < n + 1
          /\ k + 2 <= n + 1
          /\ y - 1 >= 0

\* C11 witness: a complete enumeration for n >= 6 that returned the
\* partition of n parts, whose last part is at buffer index n - 1
NoFailure_Witness ==
    /\ n >= 6
    /\ Exhausted
    /\ \E i \in 1..Len(hist) : IsSome(i) /\ Len(hist[i].val) = n

\* C12: for n > 0 the result before the first None is the one-part
\* partition [n], the call right after [n] returns None, the generator is
\* then in State::A with k = 0, and State::A with k = 0 is not reached
\* between calls before [n] has been returned.
LastIsN ==
    (n > 0) =>
        /\ \A i \in 1..Len(hist) :
              (IsNone(i) /\ (i - 1) \in BeforeNone \cup {0})
                  => (i > 1 /\ hist[i - 1] = Some(<<n>>))
        /\ \A i \in 1..(Len(hist) - 1) :
              (hist[i] = Some(<<n>>)) => IsNone(i + 1)
        /\ Exhausted => (next = StateA /\ k = 0)
        /\ (next.tag = "A" /\ k = 0)
              => \E i \in 1..Len(hist) : hist[i] = Some(<<n>>)

\* C12 witness: [7] was returned as the 15th partition of 7 and the 16th
\* call returned None
LastIsN_Witness ==
    /\ n = 7
    /\ Len(hist) = 16
    /\ hist[15] = Some(<<7>>)
    /\ IsNone(16)
    /\ next.tag = "A"
    /\ k = 0

\* the sum of the buffer entries at indices below m
PrefixSum(m) == SeqSum(Slice(a, m))

\* C14 as stated: between calls y equals n minus the sum of the buffer
\* entries at indices below k.
YIsResidual_AsStated ==
    (pc = "live") => y = n - PrefixSum(k)

\* C14 amended: between calls, for n > 0, y equals n minus the sum of the
\* buffer entries at indices below k, minus 1 in State::A and minus x in
\* State::B; for n = 0, y equals n minus that sum.
YIsResidual ==
    (pc = "live") =>
        y = n - PrefixSum(k)
              - (IF n = 0 THEN 0 ELSE IF next.tag = "A" THEN 1 ELSE next.x)

\* C14 witness: State::B with two settled entries and x >= 2
YIsResidual_Witness ==
    /\ pc = "live"
    /\ next.tag = "B"
    /\ next.x >= 2
    /\ k >= 2
    /\ PrefixSum(k) >= 2

\* C15: a next() call made in State::B leaves k and every buffer entry
\* other than a[k] and a[l] unchanged, and either stays in State::B with
\* the same l and x + 1, returning a[..k + 2], or moves to State::A,
\* returning a[..k + 1].
InnerFrame ==
    [][ (pc = "live" /\ next.tag = "B"
           /\ hist' = Append(hist, hist'[Len(hist')]))
        => /\ k' = k
           /\ Len(a') = Len(a)
           /\ \A i \in 0..(Len(a) - 1) :
                 (i # k /\ i # next.l) => At(a', i) = At(a, i)
           /\ \A i \in 0..(k - 1) : At(a', i) = At(a, i)
           /\ \/ /\ next'.tag = "B"
                 /\ next'.l = next.l
                 /\ next'.x = next.x + 1
                 /\ hist'[Len(hist')] = Some(Slice(a', k + 2))
              \/ /\ next' = StateA
                 /\ hist'[Len(hist')] = Some(Slice(a', k + 1)) ]_vars

\* C15 witness: for n = 9 the call after [1, 3, 5] was made in State::B and
\* stayed there, returning [1, 4, 4]
InnerFrame_Witness ==
    /\ pc = "live"
    /\ n = 9
    /\ Len(hist) >= 2
    /\ hist[Len(hist) - 1] = Some(<<1, 3, 5>>)
    /\ hist[Len(hist)] = Some(<<1, 4, 4>>)
    /\ next = StateB(4, 2)
    /\ k = 1

\* s comes before t in lexicographic order: at the first index where they
\* differ, s has ended or has the smaller entry
LexLess(s, t) ==
    \E i \in 1..Len(t) :
        /\ \A j \in 1..(i - 1) : j <= Len(s) /\ s[j] = t[j]
        /\ (i > Len(s) \/ s[i] < t[i])

\* C16: each partition returned is lexicographically greater than the
\* partition the previous call returned.
LexIncreasing ==
    \A i \in 1..(Len(hist) - 1) :
        (IsSome(i) /\ IsSome(i + 1)) => LexLess(hist[i].val, hist[i + 1].val)

\* C16 witness: [1, 1, 1, 6] was followed by the longer [1, 1, 2, 2, 3]
LexIncreasing_Witness ==
    \E i \in 1..(Len(hist) - 1) :
        /\ hist[i] = Some(<<1, 1, 1, 6>>)
        /\ hist[i + 1] = Some(<<1, 1, 2, 2, 3>>)

\* C17: for n > 0, between calls, sum(a[0 .. k)) + y + 1 = n in State::A
\* and sum(a[0 ..= k]) + y = n in State::B.
PhaseSums ==
    (pc = "live" /\ n > 0) =>
        /\ (next.tag = "A") => SeqSum(Slice(a, k)) + y + 1 = n
        /\ (next.tag = "B") => SeqSum(Slice(a, k + 1)) + y = n

\* C17 witness: for n = 5, State::A after its else branch turned
\* [1, 1, 1, 2] into [1, 1, 3]
PhaseSums_Witness ==
    /\ pc = "live"
    /\ n = 5
    /\ Len(hist) >= 2
    /\ hist[Len(hist) - 1] = Some(<<1, 1, 1, 2>>)
    /\ hist[Len(hist)] = Some(<<1, 1, 3>>)
    /\ next.tag = "A"
    /\ k = 2
    /\ y = 2

\* the generator at each test of the loop condition of lines 86-90
RECURSIVE LoopPoints(_, _, _)
LoopPoints(self, x, build) ==
    {self} \cup
    (IF /\ ~(AddFails(x, x) /\ Checked(build))
        /\ LoopCond(x, self.y)
        /\ InBounds(self.a, self.k)
        /\ ~(SubFails(self.y, x) /\ Checked(build))
     THEN LoopPoints([self EXCEPT !.a = Set(self.a, self.k, x),
                                  !.y = self.y - x,
                                  !.k = self.k + 1], x, build)
     ELSE {})

\* what lines 94-103 and 110-120 compute from x, l and the generator s:
\* in the split branch x, y, l and the slice bound k + 2, in the other
\* branch x + y, x + y - 1 and the slice bound k + 1.  l is k + 1 in
\* State::A (line 92) and the l carried by State::B (line 106).
BranchValues(s, x, l) ==
    IF SplitCond(x, s.y)
    THEN {x, s.y, l, s.k + 2}
    ELSE {x + s.y, x + s.y - 1, s.k + 1}

\* the values a call of next() on self computes, 2 * x apart: the
\* indices and slice bounds, x, every value of y, the entries written,
\* x + y and x + y - 1 of lines 100-101 and 116-117, and the sum x + y at
\* the loop tests and after line 108
CallComputed(self, build) ==
    IF self.next.tag = "A"
    THEN IF self.k = 0 THEN {}
         ELSE LET k0 == self.k - 1
                  s0 == [self EXCEPT !.k = k0]
                  x  == At(self.a, k0) + 1
                  pts == LoopPoints(s0, x, build)
                  s1 == WhileLoop(s0, x, build).self
              IN  {k0, x}
                  \cup {s.y : s \in pts}
                  \cup {x + s.y : s \in pts}
                  \cup {s.k : s \in pts}
                  \cup BranchValues(s1, x, s1.k + 1)
    ELSE LET x  == self.next.x + 1
             s0 == [self EXCEPT !.y = self.y - 1]
         IN  {x, s0.y, x + s0.y, self.next.l}
             \cup BranchValues(s0, x, self.next.l)

\* the sum x + y between x += 1 (line 107) and self.y -= 1 (line 108) of
\* State::B: x is incremented, y is not yet decremented; the code does not
\* evaluate this sum
CallMidSums(self) ==
    IF self.next.tag = "B" THEN {(self.next.x + 1) + self.y} ELSE {}

\* the values of a call of next() on self, 2 * x apart, with x + y at
\* every point of the call up to the last assignment to y
CallValues(self, build) == CallComputed(self, build) \cup CallMidSums(self)

\* the products 2 * x a call of next() on self computes
CallDoubles(self) ==
    IF self.next.tag = "A" /\ self.k > 0
    THEN {2 * (At(self.a, self.k - 1) + 1)}
    ELSE {}

\* the sum of the call's x and y once the call has made its last
\* assignment to y (y = x + y - 1 at lines 101 and 118 in the merge
\* branches); the code does not evaluate this sum
CallEndSums(self, build) ==
    IF self.next.tag = "A" /\ self.k = 0 THEN {}
    ELSE LET x == IF self.next.tag = "A"
                  THEN At(self.a, self.k - 1) + 1
                  ELSE self.next.x + 1
         IN  {x + Partitions_next(self, build).self.y}

\* the part of C18 on what a call computes: every value a call of next()
\* computes is within 0..n, 2 * x within 2 * n, and so are the fields and
\* entries between calls
ComputedInRange ==
    (pc = "live") =>
        /\ \A build \in Builds :
              \A v \in CallComputed(Gen, build) : v >= 0 /\ v <= n
        /\ \A d \in CallDoubles(Gen) : d <= 2 * n
        /\ \A i \in 1..Len(a) : a[i] <= n
        /\ y <= n
        /\ k <= n
        /\ (next.tag = "B") => (next.x <= n /\ next.l <= n)

\* C18 as stated: x + y <= n at every point of every call, the point
\* between lines 107 and 108 and the point after the last assignment to y
\* included
NoExcess_AsStated ==
    /\ ComputedInRange
    /\ (pc = "live") =>
          \A build \in Builds :
             /\ \A v \in CallValues(Gen, build) : v <= n
             /\ \A v \in CallEndSums(Gen, build) : v <= n

\* C18: every value a call of next() computes (x, y, x + y and x + y - 1
\* in the merge branches, indices, buffer entries) is at most n, and 2 * x
\* is at most 2 * n, so it is the only computed value that can exceed n.
\* The sum x + y, which the code evaluates only in the merge branches, is
\* at most n at every point of the call but two: between x += 1 and
\* y -= 1 of State::B it is at most n + 1, and after y = x + y - 1 it is
\* at most 2 * n - 1.
NoExcess ==
    /\ ComputedInRange
    /\ (pc = "live") =>
          /\ \A v \in CallMidSums(Gen) : v <= n + 1
          /\ \A build \in Builds :
                \A v \in CallEndSums(Gen, build) : v <= 2 * n - 1

\* C18 witness: for n = 4, after [2, 2] (State::B, x = 2, y = 2, k = 0),
\* the next call has x + y = 5 = n + 1 between lines 107 and 108, computes
\* x + y = 4 = n at line 116 and ends with y = 3, x + y = 6 > n
NoExcess_Witness ==
    /\ pc = "live"
    /\ n = 4
    /\ hist # << >>
    /\ hist[Len(hist)] = Some(<<2, 2>>)
    /\ next = StateB(2, 1)
    /\ CallMidSums(Gen) = {5}
    /\ \A build \in Builds : \E v \in CallComputed(Gen, build) : v = n
    /\ \A build \in Builds : 5 \in CallValues(Gen, build)
    /\ \A build \in Builds : CallEndSums(Gen, build) = {6}

\* C19: between calls in State::B { x, l }: l = k + 1, a[k] = x, a[l] = y,
\* 1 <= x <= y, and l is the index of the last part of the partition the
\* last call returned.
InnerShape ==
    (pc = "live" /\ next.tag = "B") =>
        /\ next.l = k + 1
        /\ At(a, k) = next.x
        /\ At(a, next.l) = y
        /\ 1 <= next.x
        /\ next.x <= y
        /\ hist # << >>
        /\ hist[Len(hist)] = Some(Slice(a, next.l + 1))

\* C19 witness: State::B after [1, 3, 5], with x = 3 < y = 5 and l = 2
InnerShape_Witness ==
    /\ pc = "live"
    /\ hist # << >>
    /\ hist[Len(hist)] = Some(<<1, 3, 5>>)
    /\ next = StateB(3, 2)
    /\ y = 5

=============================================================================
